---- MODULE Spec2Model ----
(***************************************************************************)
(* Extension manager (src/src/extension-manager.js): the registry          *)
(* (info / instance / load), the load-order and unload-order resolvers     *)
(* with their recursive dependency walks, and the two loops that apply a   *)
(* plan.  The recursive walks are unfolded into an explicit frame stack:   *)
(* one step is one call, one throw or one return of the source.            *)
(* Graph (./util/graph) and matchVersion (./util/version) are required by  *)
(* the source but are not part of it; they are modelled from the           *)
(* specification text.                                                     *)
(***************************************************************************)
EXTENDS Integers, Sequences, FiniteSets, TLC

(***************************************************************************)
(* Bounds of the model.                                                    *)
(***************************************************************************)
\* Largest number of dependency declarations in the whole registry.
MaxDeps == 3
\* Longest request list handed to a resolver.
MaxReq == 2

\* Extension ids, and the value of an absent argument (`last` of a root call).
Ids == {"A", "B", "C"}
Undefined == "undefined"

\* Installed versions and the version ranges a dependency may declare.
Versions == {1}
Ranges == {[op |-> ">=", v |-> 1], [op |-> "=", v |-> 2]}

\* The api flag of an extension info: set, or falsy.
Apis == BOOLEAN

(***************************************************************************)
(* Program constants.                                                      *)
(***************************************************************************)
UNLOAD == 0
INITIATIVE_LOAD == 1
PASSIVE_LOAD == 2

ERROR_UNAVAILABLE_EXTENSION == 144
ERROR_CIRCULAR_REQUIREMENT == 145
ERROR_DUPLICATED_EDGE == 128
ERROR_NO_TOPO_ORDER == 129

(***************************************************************************)
(* Sequence helpers.                                                       *)
(***************************************************************************)
Range(s) == {s[i] : i \in DOMAIN s}

Includes(s, x) == \E i \in DOMAIN s : s[i] = x

RemoveAt(s, k) == [i \in 1..(Len(s) - 1) |-> IF i < k THEN s[i] ELSE s[i + 1]]

Pop(s) == SubSeq(s, 1, Len(s) - 1)

Min(S) == CHOOSE x \in S : \A y \in S : x <= y

RECURSIVE SeqsUpTo(_, _)
SeqsUpTo(S, n) ==
    IF n = 0 THEN {<<>>}
    ELSE LET shorter == SeqsUpTo(S, n - 1)
         IN  shorter \cup {Append(s, x) : s \in {t \in shorter : Len(t) = n - 1}, x \in S}

(***************************************************************************)
(* ./util/version: matchVersion(version, range).                           *)
(***************************************************************************)
matchVersion(version, range) ==
    IF range.op = "=" THEN version = range.v ELSE version >= range.v

(***************************************************************************)
(* ./util/graph: Graph.                                                    *)
(***************************************************************************)
NewGraph == [nodes |-> <<>>, edges |-> {}]

hasNode(g, n) == Includes(g.nodes, n)

addNode(g, n) == IF hasNode(g, n) THEN g ELSE [g EXCEPT !.nodes = Append(@, n)]

hasEdge(g, u, v) == <<u, v>> \in g.edges

\* The caller of addEdge raises ERROR_DUPLICATED_EDGE when hasEdge(g, u, v).
addEdge(g, u, v) == [g EXCEPT !.edges = @ \cup {<<u, v>>}]

\* Linearisation: repeatedly take the earliest inserted remaining node that no
\* remaining node has an edge to. ok = FALSE is the NoTopologicalOrder condition.
RECURSIVE topoFrom(_, _, _)
topoFrom(rest, edges, acc) ==
    IF rest = <<>> THEN [ok |-> TRUE, order |-> acc]
    ELSE LET pick == {i \in DOMAIN rest :
                        ~\E j \in DOMAIN rest : <<rest[j], rest[i]>> \in edges}
         IN  IF pick = {} THEN [ok |-> FALSE, order |-> <<>>]
             ELSE LET k == CHOOSE i \in pick : \A j \in pick : i <= j
                  IN  topoFrom(RemoveAt(rest, k), edges, Append(acc, rest[k]))

topo(g) == topoFrom(g.nodes, g.edges, <<>>)

(***************************************************************************)
(* State.                                                                  *)
(***************************************************************************)
VARIABLE info          \* this.info: id -> [version, api, dependency]
VARIABLE instance      \* this.instance: the ids that hold an instance
VARIABLE load          \* this.load: id -> load status
VARIABLE loadKeys      \* key order of this.load (the order `for ... in` visits)
VARIABLE pc            \* the running call: idle, load, unload, applyLoad, applyUnload
VARIABLE request       \* the `extensions` argument of the current / last resolver call
VARIABLE reqIdx        \* position of the resolver's outer loop in the request
VARIABLE requireStack  \* requireStack of the load walk
VARIABLE frames        \* call stack of the recursive walk
VARIABLE graph         \* the resolver's Graph
VARIABLE ret           \* what the last resolver call returned or threw
VARIABLE todo          \* the entries an applying loop has still to visit
VARIABLE lifecycle     \* per instance: initialisations minus onUninit calls so far,
                       \* and the hook that initialised it while it runs
VARIABLE call          \* the last addInstance / removeInstance call of the host,
                       \* until it calls a resolver

vars == <<info, instance, load, loadKeys, pc, request, reqIdx, requireStack,
          frames, graph, ret, todo, lifecycle, call>>

registry == <<info, instance, load, loadKeys>>
walk == <<reqIdx, requireStack, frames, graph>>

\* op: the resolver that ran (load, unload); kind: none, plan, order or error.
\* With an error: its code, the id the call was at when it threw (the id the
\* console.error line names) and the require stack _printRequireStack lists.
NoRet == [op |-> "none", kind |-> "none", code |-> 0, plan |-> <<>>, order |-> <<>>,
          culprit |-> Undefined, chain |-> <<>>]

\* op: none, addInstance or removeInstance; id: its argument; known: whether
\* the id held an instance when the call was made.
NoCall == [op |-> "none", id |-> Undefined, known |-> FALSE]

\* The dependency map of an extension, as the sequence of its [id, range]
\* entries in key order.
DepIds(id) == [i \in DOMAIN info[id].dependency |-> info[id].dependency[i].id]

DependsOn(e, d) == Includes(DepIds(e), d)

TotalDeps == LET RECURSIVE Sum(_)
                 Sum(S) == IF S = {} THEN 0
                           ELSE LET x == CHOOSE y \in S : TRUE
                                IN  Len(info[x].dependency) + Sum(S \ {x})
             IN  Sum(DOMAIN info)

EmptyMap == [x \in {} |-> 0]

Init ==
    /\ info = EmptyMap
    /\ instance = {}
    /\ load = EmptyMap
    /\ loadKeys = <<>>
    /\ pc = "idle"
    /\ request = <<>>
    /\ reqIdx = 0
    /\ requireStack = <<>>
    /\ frames = <<>>
    /\ graph = NewGraph
    /\ ret = NoRet
    /\ todo = <<>>
    /\ lifecycle = EmptyMap
    /\ call = NoCall

(***************************************************************************)
(* Inputs.                                                                 *)
(***************************************************************************)
\* Dependency maps: key-ordered entries with pairwise distinct keys.
DepMaps ==
    {d \in SeqsUpTo([id : Ids, range : Ranges], MaxDeps) :
        \A i, j \in DOMAIN d : d[i].id = d[j].id => i = j}

Infos == [version : Versions, api : Apis, dependency : DepMaps]

\* Requests: non-empty lists that name an extension at most once.
Requests ==
    {r \in SeqsUpTo(Ids, MaxReq) \ {<<>>} : \A i, j \in DOMAIN r : r[i] = r[j] => i = j}

\* No call is running and no resolver result is pending.
Idle == pc = "idle" /\ ret.kind = "none"

\* Idle, and nothing is loaded: the host registers its extensions before it
\* plans and loads them.
Quiescent ==
    /\ Idle
    /\ \A id \in DOMAIN load : load[id] = UNLOAD

(***************************************************************************)
(* Registry.                                                               *)
(***************************************************************************)
\* An instance none of whose hooks has been called.
NotStarted == [count |-> 0, init |-> "none"]

setLoadStatus(id, loadStatus) == [load EXCEPT ![id] = loadStatus]

getLoadStatus(id) == IF id \in DOMAIN load THEN load[id] ELSE UNLOAD

\* Variant: an id that holds an instance is registered anew.
addInstance_Overwrites(id, inf) ==
    /\ Idle
    /\ TotalDeps + Len(inf.dependency) <= MaxDeps
    /\ info' = (id :> inf) @@ info
    /\ load' = (id :> UNLOAD) @@ load
    /\ loadKeys' = IF Includes(loadKeys, id) THEN loadKeys ELSE Append(loadKeys, id)
    /\ instance' = instance \cup {id}
    /\ lifecycle' = (id :> NotStarted) @@ lifecycle
    /\ call' = [op |-> "addInstance", id |-> id, known |-> id \in instance]
    /\ UNCHANGED <<pc, request, ret, todo, walk>>

addInstance(id, inf) ==
    /\ Idle
    /\ TotalDeps + Len(inf.dependency) <= MaxDeps
    /\ IF id \in instance
       THEN UNCHANGED <<registry, lifecycle>>
       ELSE /\ info' = (id :> inf) @@ info
            /\ load' = (id :> UNLOAD) @@ load
            /\ loadKeys' = Append(loadKeys, id)
            /\ instance' = instance \cup {id}
            /\ lifecycle' = (id :> NotStarted) @@ lifecycle
    /\ call' = [op |-> "addInstance", id |-> id, known |-> id \in instance]
    /\ UNCHANGED <<pc, request, ret, todo, walk>>

\* The map m without the key id.
Delete(m, id) == [k \in DOMAIN m \ {id} |-> m[k]]

\* The sequence s without the entries equal to x.
Without(s, x) == SelectSeq(s, LAMBDA y : y # x)

removeInstance(id) ==
    /\ Idle
    /\ IF id \in instance
       THEN /\ info' = Delete(info, id)
            /\ load' = Delete(load, id)
            /\ loadKeys' = Without(loadKeys, id)
            /\ instance' = instance \ {id}
            /\ lifecycle' = Delete(lifecycle, id)
       ELSE UNCHANGED <<registry, lifecycle>>
    /\ call' = [op |-> "removeInstance", id |-> id, known |-> id \in instance]
    /\ UNCHANGED <<pc, request, ret, todo, walk>>

(***************************************************************************)
(* Throwing out of a resolver: the call ends, its locals are gone.         *)
(***************************************************************************)
Throw(code, culprit) ==
    /\ pc' = "idle"
    /\ ret' = [NoRet EXCEPT !.op = pc, !.kind = "error", !.code = code,
                            !.culprit = culprit, !.chain = requireStack]
    /\ reqIdx' = 0
    /\ requireStack' = <<>>
    /\ frames' = <<>>
    /\ graph' = NewGraph
    /\ UNCHANGED <<registry, request, todo, lifecycle, call>>

Top == frames[Len(frames)]

Frame(id, last, phase) == [id |-> id, last |-> last, phase |-> phase, i |-> 1]

\* The loop of the top frame moves on to its next key.
Advance == [frames EXCEPT ![Len(frames)].i = @ + 1]

(***************************************************************************)
(* getExtensionLoadOrder and its walk _checkExtensionLoadingOrderById.     *)
(***************************************************************************)
\* Variant: an entry at index 0 counts as not found.
_findIdInList_MissesFirst(id, list) ==
    IF \E i \in DOMAIN list : i > 1 /\ list[i].id = id /\ list[1].id # id
    THEN (CHOOSE i \in DOMAIN list :
            list[i].id = id /\ \A j \in DOMAIN list : list[j].id = id => i <= j) - 1
    ELSE -1

\* Index of the first entry of list whose id is id (counted from 0), or -1.
_findIdInList(id, list) ==
    IF \E i \in DOMAIN list : list[i].id = id
    THEN (CHOOSE i \in DOMAIN list :
            list[i].id = id /\ \A j \in DOMAIN list : list[j].id = id => i <= j) - 1
    ELSE -1

\* Entry of _checkExtensionLoadingOrderById: push on the require stack, make
\* the id a node.
EnterLoadWalk(id, fr) ==
    /\ requireStack' = Append(requireStack, [id |-> id, version |-> info[id].version])
    /\ graph' = addNode(fr.g, id)
    /\ frames' = Append(fr.frames, Frame(id, Undefined, 0))

getExtensionLoadOrder(extensions) ==
    /\ pc = "idle" /\ ret.kind = "none"
    /\ pc' = "load"
    /\ request' = extensions
    /\ reqIdx' = 1
    /\ graph' = NewGraph
    /\ requireStack' = <<>>
    /\ frames' = <<>>
    /\ ret' = NoRet
    /\ call' = NoCall
    /\ UNCHANGED <<registry, todo, lifecycle>>

\* for (const extensionId of extensions): the id is not registered.
LoadRequestedUnavailable ==
    /\ pc = "load" /\ frames = <<>> /\ reqIdx <= Len(request)
    /\ request[reqIdx] \notin DOMAIN info
    /\ Throw(ERROR_UNAVAILABLE_EXTENSION, request[reqIdx])

\* Variant: the resolver marks the requested id as loaded while it walks it.
LoadRequestedWalk_MarksLoaded ==
    /\ pc = "load" /\ frames = <<>> /\ reqIdx <= Len(request)
    /\ request[reqIdx] \in DOMAIN info
    /\ EnterLoadWalk(request[reqIdx], [g |-> graph, frames |-> frames])
    /\ reqIdx' = reqIdx + 1
    /\ load' = setLoadStatus(request[reqIdx], INITIATIVE_LOAD)
    /\ UNCHANGED <<info, instance, loadKeys, pc, request, ret, todo, lifecycle, call>>

\* for (const extensionId of extensions): walk the requested id.
LoadRequestedWalk ==
    /\ pc = "load" /\ frames = <<>> /\ reqIdx <= Len(request)
    /\ request[reqIdx] \in DOMAIN info
    /\ EnterLoadWalk(request[reqIdx], [g |-> graph, frames |-> frames])
    /\ reqIdx' = reqIdx + 1
    /\ UNCHANGED <<registry, pc, request, ret, todo, lifecycle, call>>

\* Variant: every entry is tagged INITIATIVE_LOAD.
LoadPlanEntry_AllInitiative(id, extensions) ==
    [id |-> id, mode |-> INITIATIVE_LOAD]

\* The entry of the plan for a node of the topological order.
LoadPlanEntry(id, extensions) ==
    [id |-> id,
     mode |-> IF Includes(extensions, id) THEN INITIATIVE_LOAD ELSE PASSIVE_LOAD]

\* return graph.topo().map(...)
LoadReturn ==
    /\ pc = "load" /\ frames = <<>> /\ reqIdx > Len(request)
    /\ LET t == topo(graph)
       IN  ret' = IF t.ok
                  THEN [NoRet EXCEPT !.op = pc, !.kind = "plan",
                           !.plan = [i \in DOMAIN t.order |-> LoadPlanEntry(t.order[i], request)]]
                  ELSE [NoRet EXCEPT !.op = pc, !.kind = "error", !.code = ERROR_NO_TOPO_ORDER]
    /\ pc' = "idle"
    /\ reqIdx' = 0
    /\ graph' = NewGraph
    /\ UNCHANGED <<registry, request, requireStack, frames, todo, lifecycle, call>>

\* The arguments of graph.addEdge(dependency, extensionId).
LoadEdge(dependency, extensionId) == <<dependency, extensionId>>

\* The dependency the loop of the top frame is at.
InLoadLoop == pc = "load" /\ frames # <<>> /\ Top.i <= Len(info[Top.id].dependency)

CurDep == info[Top.id].dependency[Top.i]

\* Variant: an unregistered dependency is passed over.
LoadDepUnavailable_Continues ==
    /\ InLoadLoop
    /\ CurDep.id \notin DOMAIN info
    /\ frames' = Advance
    /\ UNCHANGED <<registry, pc, request, reqIdx, requireStack, graph, ret, todo, lifecycle, call>>

\* if (!this.info.hasOwnProperty(dependency)) throw
LoadDepUnavailable ==
    /\ InLoadLoop
    /\ CurDep.id \notin DOMAIN info
    /\ Throw(ERROR_UNAVAILABLE_EXTENSION, CurDep.id)

\* Variant: a dependency found on the require stack is walked like any other.
LoadDepCircular_Recurses ==
    /\ InLoadLoop
    /\ CurDep.id \in DOMAIN info
    /\ _findIdInList(CurDep.id, requireStack) >= 0
    /\ LET e == LoadEdge(CurDep.id, Top.id)
       IN  EnterLoadWalk(CurDep.id, [g |-> addEdge(graph, e[1], e[2]), frames |-> Advance])
    /\ UNCHANGED <<registry, pc, request, reqIdx, ret, todo, lifecycle, call>>

\* Variant: a dependency found on the require stack gets its edge and the loop
\* goes on.
LoadDepCircular_AddsEdge ==
    /\ InLoadLoop
    /\ CurDep.id \in DOMAIN info
    /\ _findIdInList(CurDep.id, requireStack) >= 0
    /\ LET e == LoadEdge(CurDep.id, Top.id) IN graph' = addEdge(graph, e[1], e[2])
    /\ frames' = Advance
    /\ UNCHANGED <<registry, pc, request, reqIdx, requireStack, ret, todo, lifecycle, call>>

\* if (this._findIdInList(dependency, requireStack) >= 0) throw
LoadDepCircular ==
    /\ InLoadLoop
    /\ CurDep.id \in DOMAIN info
    /\ _findIdInList(CurDep.id, requireStack) >= 0
    /\ Throw(ERROR_CIRCULAR_REQUIREMENT, CurDep.id)

\* Variant: a dependency of an unmatched version is passed over.
LoadDepUnmatched_Continues ==
    /\ InLoadLoop
    /\ CurDep.id \in DOMAIN info
    /\ ~(_findIdInList(CurDep.id, requireStack) >= 0)
    /\ ~matchVersion(info[CurDep.id].version, CurDep.range)
    /\ frames' = Advance
    /\ UNCHANGED <<registry, pc, request, reqIdx, requireStack, graph, ret, todo, lifecycle, call>>

\* The version does not match: throw.
LoadDepUnmatched ==
    /\ InLoadLoop
    /\ CurDep.id \in DOMAIN info
    /\ ~(_findIdInList(CurDep.id, requireStack) >= 0)
    /\ ~matchVersion(info[CurDep.id].version, CurDep.range)
    /\ Throw(ERROR_UNAVAILABLE_EXTENSION, CurDep.id)

\* graph.addEdge(dependency, extensionId) meets an edge already in the graph.
LoadDepDuplicatedEdge ==
    /\ InLoadLoop
    /\ CurDep.id \in DOMAIN info
    /\ ~(_findIdInList(CurDep.id, requireStack) >= 0)
    /\ matchVersion(info[CurDep.id].version, CurDep.range)
    /\ LET e == LoadEdge(CurDep.id, Top.id) IN hasEdge(graph, e[1], e[2])
    /\ Throw(ERROR_DUPLICATED_EDGE, CurDep.id)

\* graph.addEdge(dependency, extensionId); recurse into the dependency.
LoadDepRecurse ==
    /\ InLoadLoop
    /\ CurDep.id \in DOMAIN info
    /\ ~(_findIdInList(CurDep.id, requireStack) >= 0)
    /\ matchVersion(info[CurDep.id].version, CurDep.range)
    /\ LET e == LoadEdge(CurDep.id, Top.id)
       IN  /\ ~hasEdge(graph, e[1], e[2])
           /\ EnterLoadWalk(CurDep.id, [g |-> addEdge(graph, e[1], e[2]), frames |-> Advance])
    /\ UNCHANGED <<registry, pc, request, reqIdx, ret, todo, lifecycle, call>>

\* The loop is over: requireStack.pop(), return to the caller.
LoadWalkReturn ==
    /\ pc = "load" /\ frames # <<>> /\ Top.i > Len(info[Top.id].dependency)
    /\ requireStack' = Pop(requireStack)
    /\ frames' = Pop(frames)
    /\ UNCHANGED <<registry, pc, request, reqIdx, graph, ret, todo, lifecycle, call>>

(***************************************************************************)
(* getExtensionUnloadOrder and its walk _checkExtensionUnloadingOrderById. *)
(* A loop of the walk passes over the keys that fail its ifs: a frame      *)
(* stands at the next key for which the loop body adds an edge.            *)
(***************************************************************************)
\* Variant: every registered extension counts as active.
IsActive_Registered(id) == id \in DOMAIN load

\* if (this.load.hasOwnProperty(extension) && this.load[extension])
IsActive(id) == id \in DOMAIN load /\ load[id] # UNLOAD

\* for (const extension of extensions): the first position from k on that
\* names an active extension; past the end if there is none.
NextActive(extensions, k) ==
    LET hits == {j \in k..Len(extensions) : IsActive(extensions[j])}
    IN  IF hits = {} THEN Len(extensions) + 1 ELSE Min(hits)

\* Variant: only PASSIVE_LOAD extensions count as dependents.
IsDependent_PassiveOnly(extension, fr) ==
    /\ extension # fr.last
    /\ load[extension] = PASSIVE_LOAD
    /\ DependsOn(extension, fr.id)

\* First loop: an active extension other than `last` that declares the walked id.
IsDependent(extension, fr) ==
    /\ extension # fr.last
    /\ load[extension] # UNLOAD
    /\ DependsOn(extension, fr.id)

\* Variant: any active dependency other than `last` is followed.
IsPassiveDependency_AnyActive(dependency, fr) ==
    /\ dependency # fr.last
    /\ getLoadStatus(dependency) # UNLOAD

\* Second loop: a dependency other than `last` whose status is PASSIVE_LOAD.
IsPassiveDependency(dependency, fr) ==
    /\ dependency # fr.last
    /\ getLoadStatus(dependency) = PASSIVE_LOAD

\* The frame moved on to the next key whose loop body adds an edge: in the
\* first loop while it has such a key, then in the second; past the end of the
\* second loop when nothing is left.
Seek(fr) ==
    LET dependents == {j \in fr.i..Len(loadKeys) : IsDependent(loadKeys[j], fr)}
        deps == info[fr.id].dependency
        from == IF fr.phase = 1 THEN 1 ELSE fr.i
        passive == {j \in from..Len(deps) : IsPassiveDependency(deps[j].id, fr)}
    IN  IF fr.phase = 1 /\ dependents # {}
        THEN [fr EXCEPT !.i = Min(dependents)]
        ELSE [fr EXCEPT !.phase = 2,
                        !.i = IF passive = {} THEN Len(deps) + 1 ELSE Min(passive)]

\* The loop of the top frame goes on after the key it stands at.
AdvanceSeek == [frames EXCEPT ![Len(frames)] = Seek([@ EXCEPT !.i = @ + 1])]

\* Entry of _checkExtensionUnloadingOrderById: make the id a node.
EnterUnloadWalk(id, last, fr) ==
    /\ graph' = addNode(fr.g, id)
    /\ frames' = Append(fr.frames, Seek(Frame(id, last, 1)))

getExtensionUnloadOrder(extensions) ==
    /\ pc = "idle" /\ ret.kind = "none"
    /\ pc' = "unload"
    /\ request' = extensions
    /\ reqIdx' = NextActive(extensions, 1)
    /\ graph' = NewGraph
    /\ requireStack' = <<>>
    /\ frames' = <<>>
    /\ ret' = NoRet
    /\ call' = NoCall
    /\ UNCHANGED <<registry, todo, lifecycle>>

\* for (const extension of extensions): walk the active requested id.
UnloadRequestedWalk ==
    /\ pc = "unload" /\ frames = <<>> /\ reqIdx <= Len(request)
    /\ EnterUnloadWalk(request[reqIdx], Undefined, [g |-> graph, frames |-> frames])
    /\ reqIdx' = NextActive(request, reqIdx + 1)
    /\ UNCHANGED <<registry, pc, request, requireStack, ret, todo, lifecycle, call>>

\* return graph.topo()
UnloadReturn ==
    /\ pc = "unload" /\ frames = <<>> /\ reqIdx > Len(request)
    /\ LET t == topo(graph)
       IN  ret' = IF t.ok
                  THEN [NoRet EXCEPT !.op = pc, !.kind = "order", !.order = t.order]
                  ELSE [NoRet EXCEPT !.op = pc, !.kind = "error", !.code = ERROR_NO_TOPO_ORDER]
    /\ pc' = "idle"
    /\ reqIdx' = 0
    /\ graph' = NewGraph
    /\ UNCHANGED <<registry, request, requireStack, frames, todo, lifecycle, call>>

\* First loop, for (const extension in this.load): the dependent it is at.
InDependentLoop == pc = "unload" /\ frames # <<>> /\ Top.phase = 1

CurKey == loadKeys[Top.i]

\* Variant: the edge points from the walked id to its dependent.
DependentEdge_Reversed(extension, extensionId) == <<extensionId, extension>>

\* The arguments of graph.addEdge(extension, extensionId).
DependentEdge(extension, extensionId) == <<extension, extensionId>>

\* The arguments of graph.addEdge(extensionId, dependency).
DependencyEdge(extensionId, dependency) == <<extensionId, dependency>>

\* Variant: the DuplicatedEdge condition is caught inside the walk, which goes on.
UnloadEdgeThrows_Absorbed(e) == FALSE

\* graph.addEdge is called outside any try block: the DuplicatedEdge condition
\* of an edge that is already in the graph leaves the walk.
UnloadEdgeThrows(e) == hasEdge(graph, e[1], e[2])

\* graph.addEdge(extension, extensionId) meets an edge already in the graph.
UnloadDependentDuplicatedEdge ==
    /\ InDependentLoop
    /\ UnloadEdgeThrows(DependentEdge(CurKey, Top.id))
    /\ Throw(ERROR_DUPLICATED_EDGE, CurKey)

\* graph.addEdge(extension, extensionId); recurse into the dependent.
UnloadDependentRecurse ==
    /\ InDependentLoop
    /\ LET e == DependentEdge(CurKey, Top.id)
       IN  /\ ~UnloadEdgeThrows(e)
           /\ EnterUnloadWalk(CurKey, Top.id,
                              [g |-> addEdge(graph, e[1], e[2]), frames |-> AdvanceSeek])
    /\ UNCHANGED <<registry, pc, request, reqIdx, requireStack, ret, todo, lifecycle, call>>

\* Second loop, for (const dependency in this.info[extensionId].dependency):
\* the passive dependency it is at.
InDependencyLoop ==
    pc = "unload" /\ frames # <<>> /\ Top.phase = 2 /\ Top.i <= Len(info[Top.id].dependency)

\* graph.addEdge(extensionId, dependency) meets an edge already in the graph.
UnloadDependencyDuplicatedEdge ==
    /\ InDependencyLoop
    /\ UnloadEdgeThrows(DependencyEdge(Top.id, CurDep.id))
    /\ Throw(ERROR_DUPLICATED_EDGE, CurDep.id)

\* graph.addEdge(extensionId, dependency); recurse into the dependency.
UnloadDependencyRecurse ==
    /\ InDependencyLoop
    /\ LET e == DependencyEdge(Top.id, CurDep.id)
       IN  /\ ~UnloadEdgeThrows(e)
           /\ EnterUnloadWalk(CurDep.id, Top.id,
                              [g |-> addEdge(graph, e[1], e[2]), frames |-> AdvanceSeek])
    /\ UNCHANGED <<registry, pc, request, reqIdx, requireStack, ret, todo, lifecycle, call>>

\* Both loops are over: return to the caller.
UnloadWalkReturn ==
    /\ pc = "unload" /\ frames # <<>> /\ Top.phase = 2 /\ Top.i > Len(info[Top.id].dependency)
    /\ frames' = Pop(frames)
    /\ UNCHANGED <<registry, pc, request, reqIdx, requireStack, graph, ret, todo, lifecycle, call>>

(***************************************************************************)
(* loadExtensionsWithMode and unloadExtensions, applied to the plan the    *)
(* resolver has just returned; one step per entry.                         *)
(***************************************************************************)
loadExtensionsWithMode ==
    /\ pc = "idle" /\ ret.kind = "plan" /\ ret.plan # <<>>
    /\ pc' = "applyLoad"
    /\ todo' = ret.plan
    /\ UNCHANGED <<registry, request, ret, walk, lifecycle, call>>

\* vmCallback(extension.id): the host loads the extension.
vmCallback(id) ==
    [lifecycle EXCEPT ![id] = [count |-> @.count + 1, init |-> "vmCallback"]]

\* this.instance[extension.id].onInit()
onInit(id) ==
    [lifecycle EXCEPT ![id] = [count |-> @.count + 1, init |-> "onInit"]]

\* this.instance[extension].onUninit()
onUninit(id) ==
    [lifecycle EXCEPT ![id] = [count |-> @.count - 1, init |-> "none"]]

\* Variant: entries of mode PASSIVE_LOAD are passed over.
LoadExtension_InitiativeOnly ==
    /\ pc = "applyLoad" /\ todo # <<>>
    /\ LET extension == Head(todo)
       IN  IF getLoadStatus(extension.id) = UNLOAD /\ extension.mode = INITIATIVE_LOAD
           THEN /\ lifecycle' = IF ~info[extension.id].api
                                THEN vmCallback(extension.id)
                                ELSE onInit(extension.id)
                /\ load' = setLoadStatus(extension.id, extension.mode)
           ELSE UNCHANGED <<load, lifecycle>>
    /\ todo' = Tail(todo)
    /\ UNCHANGED <<info, instance, loadKeys, pc, request, ret, walk, call>>

\* Variant: the extension is initialised whatever its load status.
LoadExtension_AlwaysInit ==
    /\ pc = "applyLoad" /\ todo # <<>>
    /\ LET extension == Head(todo)
       IN  /\ lifecycle' = IF ~info[extension.id].api
                           THEN vmCallback(extension.id)
                           ELSE onInit(extension.id)
           /\ load' = IF getLoadStatus(extension.id) = UNLOAD
                       THEN setLoadStatus(extension.id, extension.mode)
                       ELSE load
    /\ todo' = Tail(todo)
    /\ UNCHANGED <<info, instance, loadKeys, pc, request, ret, walk, call>>

\* One iteration of for (const extension of extensions).
LoadExtension ==
    /\ pc = "applyLoad" /\ todo # <<>>
    /\ LET extension == Head(todo)
       IN  IF getLoadStatus(extension.id) = UNLOAD
           THEN /\ lifecycle' = IF ~info[extension.id].api
                                THEN vmCallback(extension.id)
                                ELSE onInit(extension.id)
                /\ load' = setLoadStatus(extension.id, extension.mode)
           ELSE UNCHANGED <<load, lifecycle>>
    /\ todo' = Tail(todo)
    /\ UNCHANGED <<info, instance, loadKeys, pc, request, ret, walk, call>>

LoadExtensionsDone ==
    /\ pc = "applyLoad" /\ todo = <<>>
    /\ pc' = "idle"
    /\ ret' = NoRet
    /\ request' = <<>>
    /\ UNCHANGED <<registry, todo, walk, lifecycle, call>>

unloadExtensions ==
    /\ pc = "idle" /\ ret.kind = "order" /\ ret.order # <<>>
    /\ pc' = "applyUnload"
    /\ todo' = ret.order
    /\ UNCHANGED <<registry, request, ret, walk, lifecycle, call>>

\* unloadExtensions of an empty order: the loop has nothing to visit.
unloadExtensionsEmpty ==
    /\ pc = "idle" /\ ret.kind = "order" /\ ret.order = <<>>
    /\ ret' = NoRet
    /\ request' = <<>>
    /\ UNCHANGED <<registry, pc, todo, walk, lifecycle, call>>

\* One iteration of for (const extension of extensions).
UnloadExtension ==
    /\ pc = "applyUnload" /\ todo # <<>>
    /\ LET extension == Head(todo)
       IN  IF getLoadStatus(extension) # UNLOAD
           THEN /\ lifecycle' = onUninit(extension)
                /\ load' = setLoadStatus(extension, UNLOAD)
           ELSE UNCHANGED <<load, lifecycle>>
    /\ todo' = Tail(todo)
    /\ UNCHANGED <<info, instance, loadKeys, pc, request, ret, walk, call>>

UnloadExtensionsDone ==
    /\ pc = "applyUnload" /\ todo = <<>>
    /\ pc' = "idle"
    /\ ret' = NoRet
    /\ request' = <<>>
    /\ UNCHANGED <<registry, todo, walk, lifecycle, call>>

\* The caller is done with a result it does not apply: an error it has
\* caught, a plan or an order it drops.
DropResult ==
    /\ pc = "idle" /\ ret.kind # "none"
    /\ ret' = NoRet
    /\ request' = <<>>
    /\ UNCHANGED <<registry, pc, todo, walk, lifecycle, call>>

(***************************************************************************)
(* Specification.                                                          *)
(***************************************************************************)
\* The ids are interchangeable: the host registers them in one fixed order.
IdOrder == <<"A", "B", "C">>

\* The resolvers never read the api flag: here every extension sets it.
Register ==
    /\ Quiescent
    /\ \E id \in Ids :
        /\ Len(loadKeys) < Len(IdOrder) => id = IdOrder[Len(loadKeys) + 1]
        /\ \E inf \in {i \in Infos : i.api} : addInstance(id, inf)

ResolveLoad ==
    \/ \E extensions \in Requests : getExtensionLoadOrder(extensions)
    \/ LoadRequestedUnavailable
    \/ LoadRequestedWalk
    \/ LoadDepUnavailable
    \/ LoadDepCircular
    \/ LoadDepUnmatched
    \/ LoadDepDuplicatedEdge
    \/ LoadDepRecurse
    \/ LoadWalkReturn
    \/ LoadReturn

ResolveUnload ==
    \/ \E extensions \in Requests : getExtensionUnloadOrder(extensions)
    \/ UnloadRequestedWalk
    \/ UnloadDependentDuplicatedEdge
    \/ UnloadDependentRecurse
    \/ UnloadDependencyDuplicatedEdge
    \/ UnloadDependencyRecurse
    \/ UnloadWalkReturn
    \/ UnloadReturn

Apply ==
    \/ loadExtensionsWithMode
    \/ LoadExtension
    \/ LoadExtensionsDone
    \/ unloadExtensions
    \/ unloadExtensionsEmpty
    \/ UnloadExtension
    \/ UnloadExtensionsDone
    \/ DropResult

Next == Register \/ ResolveLoad \/ ResolveUnload \/ Apply

Spec == Init /\ [][Next]_vars

\* The extensions that may come without the api flag.
ApiLessIds == {"A"}

\* The host of the lifecycle hooks: extensions with and without the api flag,
\* in a registry with one dependency declaration less; it also unloads lists
\* that no resolver has returned.
RegisterAnyApi ==
    /\ Quiescent
    /\ \E id \in Ids :
        /\ Len(loadKeys) < Len(IdOrder) => id = IdOrder[Len(loadKeys) + 1]
        /\ \E inf \in {i \in Infos : i.api \/ id \in ApiLessIds} :
            /\ TotalDeps + Len(inf.dependency) < MaxDeps
            /\ addInstance(id, inf)

\* unloadExtensions(extensions) on a list of the host's own: registered
\* extensions, loaded or not.
CallUnloadExtensions ==
    /\ Idle
    /\ \E extensions \in Requests :
        /\ \A i \in DOMAIN extensions : extensions[i] \in instance
        /\ todo' = extensions
    /\ pc' = "applyUnload"
    /\ call' = NoCall
    /\ UNCHANGED <<registry, request, ret, walk, lifecycle>>

LifecycleNext ==
    \/ RegisterAnyApi
    \/ ResolveLoad
    \/ ResolveUnload
    \/ Apply
    \/ CallUnloadExtensions

LifecycleSpec == Init /\ [][LifecycleNext]_vars

\* The host that registers and removes extensions between its other calls,
\* whatever is loaded, in a registry with one dependency declaration less. It
\* registers a new id in the fixed order and removes the id it registered last,
\* or one that is not registered.
Reregister ==
    /\ Idle
    /\ \E id \in Ids :
        /\ id \notin instance => id = IdOrder[Len(loadKeys) + 1]
        /\ \E inf \in {i \in Infos : i.api} :
            /\ TotalDeps + Len(inf.dependency) < MaxDeps
            /\ addInstance(id, inf)

Unregister ==
    /\ Idle
    /\ \E id \in Ids :
        /\ id \in instance => id = loadKeys[Len(loadKeys)]
        /\ removeInstance(id)

RegistryNext == Reregister \/ Unregister \/ ResolveLoad \/ ResolveUnload \/ Apply

RegistrySpec == Init /\ [][RegistryNext]_vars

(***************************************************************************)
(* The dependency relation the registry declares, for the properties.      *)
(***************************************************************************)
Deps(e) == IF e \in DOMAIN info THEN Range(DepIds(e)) ELSE {}

RECURSIVE ReachFrom(_)
ReachFrom(S) ==
    LET more == S \cup UNION {Deps(e) : e \in S}
    IN  IF more = S THEN S ELSE ReachFrom(more)

Requested == Range(request)

\* The requested ids and everything they transitively declare.
Required == ReachFrom(Requested)

OnCycle(e) == e \in ReachFrom(Deps(e))

\* Every range declared by a registered id of S on a registered id is satisfied.
RangesSatisfied(S) ==
    \A e \in S \cap DOMAIN info : \A i \in DOMAIN info[e].dependency :
        LET d == info[e].dependency[i]
        IN  d.id \in DOMAIN info => matchVersion(info[d.id].version, d.range)

Pos(s, x) == CHOOSE i \in DOMAIN s : s[i] = x

PlanIds == [i \in DOMAIN ret.plan |-> ret.plan[i].id]

LoadReturned == ret.op = "load" /\ ret.kind # "none"
UnloadReturned == ret.op = "unload" /\ ret.kind # "none"

\* Dependencies come strictly before the ids that declare them.
DependenciesFirst(s) ==
    \A i, j \in DOMAIN s : DependsOn(s[j], s[i]) => i < j

\* Dependents come strictly before the ids they declare.
DependentsFirst(s) ==
    \A i, j \in DOMAIN s : DependsOn(s[i], s[j]) => i < j

(***************************************************************************)
(* Properties.                                                             *)
(***************************************************************************)
\* C1: whenever everything the request transitively requires is registered,
\* every declared range is satisfied and no required id lies on a dependency
\* cycle, getExtensionLoadOrder returns a plan that lists exactly the required
\* ids, each once, every dependency before every id that declares it.
C1_LoadOrderComplete ==
    (LoadReturned /\ Required \subseteq DOMAIN info /\ RangesSatisfied(Required)
        /\ \A e \in Required : ~OnCycle(e))
    => /\ ret.kind = "plan"
       /\ Range(PlanIds) = Required
       /\ Len(PlanIds) = Cardinality(Required)
       /\ DependenciesFirst(PlanIds)

\* C2: no call of a resolver ends with the DuplicatedEdge condition of
\* Graph.addEdge; it returns a plan or fails with a resolution error.
C2_NoDuplicatedEdgeEscapes ==
    ~(ret.kind = "error" /\ ret.code = ERROR_DUPLICATED_EDGE)

\* What a failed call was looking at: the ids on the require stack it lists,
\* the extension whose dependency map it was in, the range declared there.
ChainIds == {ret.chain[i].id : i \in DOMAIN ret.chain}

Requirer == ret.chain[Len(ret.chain)].id

DeclaredRange(e, d) == info[e].dependency[Pos(DepIds(e), d)].range

FailedInWalk == ret.kind = "error" /\ ret.chain # <<>>

FirstDep(e) == info[e].dependency[1]

\* a's first dependency is b and b's first dependency is a (b = a: a requires
\* itself); both registered, a's range on b satisfied.
HeadCycle(a, b) ==
    /\ a \in DOMAIN info /\ b \in DOMAIN info
    /\ info[a].dependency # <<>> /\ FirstDep(a).id = b
    /\ matchVersion(info[b].version, FirstDep(a).range)
    /\ info[b].dependency # <<>> /\ FirstDep(b).id = a

\* C3: a call of getExtensionLoadOrder that fails at a registered dependency
\* whose id is on the require stack fails with ERROR_CIRCULAR_REQUIREMENT; so
\* does a call whose first requested id A requires B first and B requires A
\* first (or A requires itself first); and no plan is returned when a required
\* id lies on a dependency cycle.
C3_CircularRequirement ==
    LoadReturned =>
        /\ (FailedInWalk /\ ret.culprit \in DOMAIN info /\ ret.culprit \in ChainIds)
              => ret.code = ERROR_CIRCULAR_REQUIREMENT
        /\ (\E b \in Ids : HeadCycle(request[1], b))
              => (ret.kind = "error" /\ ret.code = ERROR_CIRCULAR_REQUIREMENT)
        /\ ret.kind = "plan" => \A e \in Required : ~OnCycle(e)

\* getExtensionLoadOrder([A]) has failed with the circular requirement where
\* A requires B and B requires A, A # B.
C3_Witness ==
    /\ LoadReturned /\ ret.kind = "error" /\ ret.code = ERROR_CIRCULAR_REQUIREMENT
    /\ Len(request) = 1
    /\ \E b \in Ids \ {request[1]} : HeadCycle(request[1], b)

\* C4: a call of getExtensionLoadOrder that fails at a registered dependency
\* which is not on the require stack and whose version does not satisfy the
\* range its requirer declares fails with ERROR_UNAVAILABLE_EXTENSION and
\* carries no plan; and no plan is returned while a required id declares an
\* unsatisfied range.
C4_UnmatchedVersion ==
    LoadReturned =>
        /\ (FailedInWalk /\ ret.culprit \in DOMAIN info /\ ret.culprit \notin ChainIds
              /\ ~matchVersion(info[ret.culprit].version, DeclaredRange(Requirer, ret.culprit)))
              => (ret.code = ERROR_UNAVAILABLE_EXTENSION /\ ret.plan = <<>>)
        /\ ret.kind = "plan" => RangesSatisfied(Required)

\* The second requested id failed on an unmatched version after the first
\* requested id had been walked.
C4_Witness ==
    /\ LoadReturned /\ FailedInWalk /\ ret.code = ERROR_UNAVAILABLE_EXTENSION
    /\ Len(request) = 2 /\ ret.chain[1].id = request[2]
    /\ ret.culprit \in DOMAIN info /\ ret.culprit \notin ChainIds
    /\ ~matchVersion(info[ret.culprit].version, DeclaredRange(Requirer, ret.culprit))

\* C5: a call of getExtensionLoadOrder that comes to a requested id or to a
\* declared dependency that is not registered fails with
\* ERROR_UNAVAILABLE_EXTENSION and carries no plan; and no plan is returned
\* while a required id is unregistered.
C5_Unregistered ==
    LoadReturned =>
        /\ (ret.kind = "error" /\ ret.culprit # Undefined /\ ret.culprit \notin DOMAIN info)
              => (ret.code = ERROR_UNAVAILABLE_EXTENSION /\ ret.plan = <<>>)
        /\ ret.kind = "plan" => Required \subseteq DOMAIN info

\* A walk has failed on a declared dependency that is not registered.
C5_Witness ==
    /\ LoadReturned /\ FailedInWalk /\ ret.code = ERROR_UNAVAILABLE_EXTENSION
    /\ ret.culprit \notin DOMAIN info
    /\ DependsOn(Requirer, ret.culprit)

\* C6: in a returned load plan an entry has mode INITIATIVE_LOAD exactly when
\* its id is in the request, and PASSIVE_LOAD otherwise, whatever the load
\* status of the extensions.
C6_ModeByRequest ==
    (LoadReturned /\ ret.kind = "plan") =>
        \A i \in DOMAIN ret.plan :
            ret.plan[i].mode =
                IF ret.plan[i].id \in Requested THEN INITIATIVE_LOAD ELSE PASSIVE_LOAD

\* A plan with both modes, computed while an id it lists as INITIATIVE_LOAD is
\* loaded PASSIVE_LOAD and one it lists as PASSIVE_LOAD is loaded.
C6_Witness ==
    /\ LoadReturned /\ ret.kind = "plan" /\ pc = "idle"
    /\ \E i, j \in DOMAIN ret.plan :
        /\ ret.plan[i].mode = INITIATIVE_LOAD /\ load[ret.plan[i].id] = PASSIVE_LOAD
        /\ ret.plan[j].mode = PASSIVE_LOAD /\ load[ret.plan[j].id] # UNLOAD

\* C7: in a returned unload order every id comes strictly before each id of
\* the order that it declares as a dependency.
C7_DependentsFirst ==
    (UnloadReturned /\ ret.kind = "order") => DependentsFirst(ret.order)

\* An unload order of three ids in which some id declares a later one.
C7_Witness ==
    /\ UnloadReturned /\ ret.kind = "order" /\ Len(ret.order) = 3
    /\ \E i, j \in DOMAIN ret.order : i < j /\ DependsOn(ret.order[i], ret.order[j])

\* a is loaded INITIATIVE_LOAD and declares b, b is loaded PASSIVE_LOAD and no
\* other active extension declares b.
SoleDependent(a, b) ==
    /\ a \in DOMAIN load /\ b \in DOMAIN load
    /\ load[a] = INITIATIVE_LOAD /\ load[b] = PASSIVE_LOAD
    /\ DependsOn(a, b)
    /\ \A e \in DOMAIN load \ {a} : IsActive(e) => ~DependsOn(e, b)

\* C8: with A loaded INITIATIVE_LOAD and requiring B, B loaded PASSIVE_LOAD
\* and required by no other active extension, getExtensionUnloadOrder([A])
\* returns an order that holds A and B, A before B.
C8_UnloadCascade ==
    \A a, b \in Ids :
        (UnloadReturned /\ pc = "idle" /\ request = <<a>> /\ SoleDependent(a, b))
        => /\ ret.kind = "order"
           /\ Includes(ret.order, a) /\ Includes(ret.order, b)
           /\ Pos(ret.order, a) < Pos(ret.order, b)

\* a and c are loaded INITIATIVE_LOAD and both declare b, loaded PASSIVE_LOAD.
SharedDependency(a, c, b) ==
    /\ a # c
    /\ {a, b, c} \subseteq DOMAIN load
    /\ load[a] = INITIATIVE_LOAD /\ load[c] = INITIATIVE_LOAD /\ load[b] = PASSIVE_LOAD
    /\ DependsOn(a, b) /\ DependsOn(c, b)

\* C9: with A and C loaded INITIATIVE_LOAD and both requiring B, loaded
\* PASSIVE_LOAD, an order returned by getExtensionUnloadOrder([A]) that holds
\* B holds C before it; and while unloadExtensions applies the order of an
\* unload request [A], no dependency that A shares with an extension C is
\* UNLOAD while C is still active.
C9_SharedDependencySafe ==
    \A a, b, c \in Ids :
        /\ (UnloadReturned /\ ret.kind = "order" /\ pc = "idle" /\ request = <<a>>
              /\ SharedDependency(a, c, b) /\ Includes(ret.order, b))
              => (Includes(ret.order, c) /\ Pos(ret.order, c) < Pos(ret.order, b))
        /\ (UnloadReturned /\ pc = "applyUnload" /\ request = <<a>> /\ a # c
              /\ {a, b, c} \subseteq DOMAIN load
              /\ DependsOn(a, b) /\ DependsOn(c, b) /\ IsActive(c))
              => IsActive(b)

\* unloadExtensions is applying the order of an unload request [A], where A and
\* a still active C share the dependency B, which is loaded PASSIVE_LOAD, and
\* it has unloaded A already.
C9_Witness ==
    \E a, b, c \in Ids :
        /\ UnloadReturned /\ pc = "applyUnload" /\ request = <<a>> /\ a # c
        /\ {a, b, c} \subseteq DOMAIN load
        /\ DependsOn(a, b) /\ DependsOn(c, b)
        /\ load[a] = UNLOAD /\ load[c] = INITIATIVE_LOAD /\ load[b] = PASSIVE_LOAD

\* C10: with A and C loaded INITIATIVE_LOAD and both requiring B, loaded
\* PASSIVE_LOAD, the order of getExtensionUnloadOrder([A]) does not hold B and
\* the order of getExtensionUnloadOrder([A, C]) does.
C10_SharedDependencyKept ==
    \A a, b, c \in Ids :
        (UnloadReturned /\ pc = "idle" /\ SharedDependency(a, c, b))
        => /\ request = <<a>> => (ret.kind = "order" /\ ~Includes(ret.order, b))
           /\ request = <<a, c>> => (ret.kind = "order" /\ Includes(ret.order, b))

\* C11: no step of getExtensionLoadOrder or of getExtensionUnloadOrder, from
\* its call to its return or its throw, changes the info map, the instance map
\* or the load-status map.
C11_ResolversLeaveRegistry ==
    [][(pc \in {"load", "unload"} \/ pc' \in {"load", "unload"}) => UNCHANGED registry]_vars

\* A resolver has failed while extensions are loaded.
C11_Witness ==
    /\ pc = "idle" /\ ret.kind = "error"
    /\ \E id \in DOMAIN load : load[id] = PASSIVE_LOAD

\* a, b, c are active, a declares b and c, b declares c, b and c are loaded
\* PASSIVE_LOAD.
ActiveTriangle(a, b, c) ==
    /\ {a, b, c} \subseteq DOMAIN load
    /\ a # b /\ b # c /\ a # c
    /\ DependsOn(a, b) /\ DependsOn(a, c) /\ DependsOn(b, c)
    /\ IsActive(a) /\ load[b] = PASSIVE_LOAD /\ load[c] = PASSIVE_LOAD

\* C12: the recursion of the unload walk is bounded: every recursive call
\* follows the insertion of an edge that was not in the graph, the edges join
\* registered ids, so the walk is never deeper than the number of edges plus
\* one and a call of getExtensionUnloadOrder ends.
C12_UnloadWalkBounded ==
    pc = "unload" =>
        /\ Len(frames) <= Cardinality(graph.edges) + 1
        /\ graph.edges \subseteq (DOMAIN load) \X (DOMAIN load)
        /\ Range(graph.nodes) \subseteq DOMAIN load

\* A call of getExtensionUnloadOrder that asked for the top of an active
\* triangle has ended.
C12_Witness ==
    /\ UnloadReturned /\ pc = "idle"
    /\ \E a, b, c \in Ids : ActiveTriangle(a, b, c) /\ a \in Requested

\* C13: during getExtensionLoadOrder the require stack never holds an id
\* twice; it mirrors the recursion, whose depth is therefore at most the number
\* of registered extensions.
C13_RequireStackDistinct ==
    pc = "load" =>
        /\ \A i, j \in DOMAIN requireStack :
              requireStack[i].id = requireStack[j].id => i = j
        /\ Len(requireStack) <= Cardinality(DOMAIN info)
        /\ Len(frames) = Len(requireStack)
        /\ \A i \in DOMAIN frames : frames[i].id = requireStack[i].id

\* The walk is as deep as the registry is large and stands at a dependency
\* that closes a cycle through the requested id.
C13_Witness ==
    /\ InLoadLoop
    /\ Len(requireStack) = 3 /\ Cardinality(DOMAIN info) = 3
    /\ CurDep.id \in DOMAIN info
    /\ _findIdInList(CurDep.id, requireStack) = 0

\* C14: the graph getExtensionLoadOrder builds can be linearised at every
\* moment of the call, and the call never ends with ERROR_NO_TOPO_ORDER.
C14_LoadGraphAcyclic ==
    /\ pc = "load" => topo(graph).ok
    /\ ~(ret.op = "load" /\ ret.kind = "error" /\ ret.code = ERROR_NO_TOPO_ORDER)

\* All requested ids have been walked, in a registry that declares a cycle
\* elsewhere, and the graph holds an edge.
C14_Witness ==
    /\ pc = "load" /\ frames = <<>> /\ reqIdx > Len(request)
    /\ graph.edges # {}
    /\ \E e \in DOMAIN info : OnCycle(e)

\* C15: every id of a returned unload order is active; a call that fails
\* fails at an active id; and a request none of whose ids is active returns
\* the empty order.
C15_OnlyActivePlanned ==
    (UnloadReturned /\ pc = "idle") =>
        /\ ret.kind = "order" => \A i \in DOMAIN ret.order : getLoadStatus(ret.order[i]) # UNLOAD
        /\ ret.kind = "error" => getLoadStatus(ret.culprit) # UNLOAD
        /\ (\A id \in Requested : getLoadStatus(id) = UNLOAD) => (ret.kind = "order" /\ ret.order = <<>>)

\* A request that names an extension that is not loaded and one that is has
\* returned an order that is not empty.
C15_Witness ==
    /\ UnloadReturned /\ pc = "idle" /\ ret.kind = "order" /\ ret.order # <<>>
    /\ \E id \in Requested : getLoadStatus(id) = UNLOAD

\* C16: every id of a returned unload order that is not in the request is
\* loaded PASSIVE_LOAD or declares a dependency on another id of the order.
C16_InitiativeNotPulled ==
    (UnloadReturned /\ pc = "idle" /\ ret.kind = "order") =>
        \A i \in DOMAIN ret.order :
            ret.order[i] \notin Requested =>
                \/ load[ret.order[i]] = PASSIVE_LOAD
                \/ \E j \in DOMAIN ret.order : j # i /\ DependsOn(ret.order[i], ret.order[j])

\* An unload order was returned for a request whose id declares a dependency
\* that is loaded INITIATIVE_LOAD, and the order does not hold it.
C16_Witness ==
    /\ UnloadReturned /\ pc = "idle" /\ ret.kind = "order"
    /\ \E i \in DOMAIN ret.order, d \in DOMAIN load :
        /\ ret.order[i] \in Requested
        /\ DependsOn(ret.order[i], d)
        /\ load[d] = INITIATIVE_LOAD
        /\ ~Includes(ret.order, d)

\* C17: when loadExtensionsWithMode has gone through the plan of a load
\* request, every requested id has status INITIATIVE_LOAD.
C17_RequestedBecomeInitiative ==
    (pc = "applyLoad" /\ todo = <<>>) =>
        \A id \in Requested : load[id] = INITIATIVE_LOAD

\* C18: every extension whose status is not UNLOAD has all of its declared
\* dependencies registered and in a status that is not UNLOAD.
C18_DependencyClosure ==
    \A e \in DOMAIN load :
        IsActive(e) => \A d \in Deps(e) : IsActive(d)

\* unloadExtensions is half way through an order of three ids: one is unloaded,
\* an active extension still declares an active dependency.
C18_Witness ==
    /\ pc = "applyUnload" /\ Len(ret.order) = 3 /\ Len(todo) = 2
    /\ \E e, d \in DOMAIN load : IsActive(e) /\ DependsOn(e, d) /\ IsActive(d)

\* C19: for every extension, a step that initialises it (onInit, or the vm
\* callback when its api flag is falsy) finds it UNLOAD and never initialised
\* or uninitialised since, and leaves it loaded; a step that calls its onUninit
\* finds it loaded and initialised and leaves it UNLOAD: the two alternate,
\* initialisation first. A plan entry of a loaded extension and an unload entry
\* of an UNLOAD extension change neither its status nor its lifecycle.
C19_LifecycleAlternation ==
    [][\A id \in instance \cap instance' :
          LET before == lifecycle[id]
              after == lifecycle'[id]
          IN  /\ after.count \in {0, 1}
              /\ after.count > before.count =>
                    /\ before.count = 0 /\ load[id] = UNLOAD /\ load'[id] # UNLOAD
                    /\ after.init = IF info[id].api THEN "onInit" ELSE "vmCallback"
              /\ after.count < before.count =>
                    /\ before.count = 1 /\ load[id] # UNLOAD /\ load'[id] = UNLOAD
              /\ after.count = before.count => after = before
              /\ (pc = "applyLoad" /\ todo # <<>> /\ Head(todo).id = id /\ load[id] # UNLOAD)
                    => (after = before /\ load'[id] = load[id])
              /\ (pc = "applyUnload" /\ todo # <<>> /\ Head(todo) = id /\ load[id] = UNLOAD)
                    => (after = before /\ load'[id] = load[id])
      ]_vars

\* unloadExtensions stands at an entry whose extension is UNLOAD, while an
\* extension without the api flag runs on the vm callback and one with it on
\* onInit.
C19_Witness ==
    /\ pc = "applyUnload" /\ todo # <<>>
    /\ load[Head(todo)] = UNLOAD
    /\ \E a, b \in instance :
        /\ lifecycle[a] = [count |-> 1, init |-> "vmCallback"]
        /\ lifecycle[b] = [count |-> 1, init |-> "onInit"]

\* C20: a step changes neither the info nor, outside the two applying loops,
\* the load status of an id that holds an instance before and after it; a call
\* of addInstance on an id that holds an instance changes nothing of the
\* registry; and an id that gets its instance in a step starts with status
\* UNLOAD.
C20_AddInstanceNoOp ==
    [][/\ \A id \in instance \cap instance' :
            /\ info'[id] = info[id]
            /\ load'[id] # load[id] => pc \in {"applyLoad", "applyUnload"}
       /\ \A id \in instance' \ instance : load'[id] = UNLOAD
       /\ (call'.op = "addInstance" /\ call'.id \in instance) => UNCHANGED registry
      ]_vars

\* The host has called addInstance on an id that holds an instance and is
\* loaded.
C20_Witness ==
    /\ call = [op |-> "addInstance", id |-> call.id, known |-> TRUE]
    /\ call.id \in DOMAIN load /\ load[call.id] # UNLOAD

====
